---- MODULE Spec2Model ----
(***************************************************************************)
(* costgpt: the cost-attribution core of the SDK.                          *)
(*   pricing.py      PRICING, ALIASES, get_cost                            *)
(*   tracker.py      UsageEvent, CostTracker.__init__, CostTracker.track   *)
(*   client.py       APIClient.__init__, APIClient.send_event              *)
(*                   track_usage                                           *)
(*   instruments/    instrument, tracked_create, uninstrument (per SDK)    *)
(*                                                                         *)
(* Representation.                                                         *)
(*   An optional Python value is a sequence of length <= 1: None is <<>>   *)
(*   and a present value v is <<v>>, so that None, "" and "x" are three    *)
(*   different values.                                                     *)
(*   A price is kept in thousandths of a dollar per million tokens and a   *)
(*   cost in billionths of a dollar, so tokens / 1_000_000 * price is the  *)
(*   integer product tokens * price (0.075 USD is 75, 0.0075 USD is        *)
(*   7500000).  The rounding of the float product is not modelled.         *)
(*   A model name is a string; Chars gives its characters, which is what   *)
(*   str.startswith compares.                                              *)
(***************************************************************************)
EXTENDS Integers, Sequences, FiniteSets, TLC

VARIABLES
  lib,              \* lib[p]: whether "import <p>" succeeds in this process
  slot,             \* slot[p]: the callable bound to the SDK's create attribute
  original_create,  \* original_create[p]: the module global _original_create
  tracker,          \* tracker[p]: the module global _tracker
  made,             \* number of tracked_create closures created so far
  nextId,           \* number of UsageEvents created so far (uuid4 / now source)
  posts,            \* the POST requests issued to the collector, in order
  inflight,         \* inflight[th]: the call thread th is in the middle of
  lastOp            \* the last call the host made and what it got back

vars == <<lib, slot, original_create, tracker, made, nextId, posts, inflight, lastOp>>

----------------------------------------------------------------------------
(* Bounds of the model *)

MaxTokenSteps == 2
TokenStep == 500
MaxCalls == 2
MaxInstalls == 2

----------------------------------------------------------------------------
(* Optional values and Python truthiness *)

None == <<>>

Some(v) == <<v>>

\* bool(x) of an optional string: None and "" are falsy
Truthy(x) == x # None /\ x[1] # ""

\* a or b
PyOr(a, b) == IF Truthy(a) THEN a ELSE b

\* the element of a one-element set: { e(x) : x \in {v} } names v once
The(S) == CHOOSE x \in S : TRUE

----------------------------------------------------------------------------
(* pricing.py *)

PRICING ==
  << [key |-> "claude-opus-4-20250514", input_price |-> 15000, output_price |-> 75000],
     [key |-> "claude-sonnet-4-20250514", input_price |-> 3000, output_price |-> 15000],
     [key |-> "claude-3-5-sonnet-20241022", input_price |-> 3000, output_price |-> 15000],
     [key |-> "claude-3-5-haiku-20241022", input_price |-> 800, output_price |-> 4000],
     [key |-> "claude-3-opus-20240229", input_price |-> 15000, output_price |-> 75000],
     [key |-> "claude-3-sonnet-20240229", input_price |-> 3000, output_price |-> 15000],
     [key |-> "claude-3-haiku-20240307", input_price |-> 250, output_price |-> 1250],
     [key |-> "gpt-4o", input_price |-> 2500, output_price |-> 10000],
     [key |-> "gpt-4o-mini", input_price |-> 150, output_price |-> 600],
     [key |-> "gpt-4-turbo", input_price |-> 10000, output_price |-> 30000],
     [key |-> "gpt-4", input_price |-> 30000, output_price |-> 60000],
     [key |-> "gpt-3.5-turbo", input_price |-> 500, output_price |-> 1500],
     [key |-> "o1", input_price |-> 15000, output_price |-> 60000],
     [key |-> "o1-mini", input_price |-> 3000, output_price |-> 12000],
     [key |-> "o1-preview", input_price |-> 15000, output_price |-> 60000],
     [key |-> "gemini-1.5-pro", input_price |-> 1250, output_price |-> 5000],
     [key |-> "gemini-1.5-flash", input_price |-> 75, output_price |-> 300],
     [key |-> "gemini-2.0-flash", input_price |-> 100, output_price |-> 400],
     [key |-> "mistral-large", input_price |-> 2000, output_price |-> 6000],
     [key |-> "mistral-small", input_price |-> 200, output_price |-> 600],
     [key |-> "codestral", input_price |-> 200, output_price |-> 600] >>

ALIASES ==
  << [alias |-> "claude-3.5-sonnet", target |-> "claude-3-5-sonnet-20241022"],
     [alias |-> "claude-3.5-haiku", target |-> "claude-3-5-haiku-20241022"],
     [alias |-> "gpt-4o-2024-08-06", target |-> "gpt-4o"],
     [alias |-> "gpt-4o-2024-05-13", target |-> "gpt-4o"] >>

\* the model names the host passes that are neither keys nor aliases
OtherNames ==
  { "unknown-model-xyz",
    "",
    "gpt",
    "gpt-4-0613",
    "gpt-4.1",
    "gpt-4o-2024-11-20",
    "gpt-4o-mini-2024-07-18",
    "claude",
    "claude-3-5-sonnet-latest",
    "claude-3.5-sonnet-20241022",
    "claude-3-5-sonnet",
    "o",
    "o1-pro",
    "o3-mini",
    "gemini-1.5",
    "mistral",
    "llama-3-70b" }

Chars(s) ==
  CASE s = "claude-opus-4-20250514" -> <<"c", "l", "a", "u", "d", "e", "-", "o", "p", "u", "s", "-", "4", "-", "2", "0", "2", "5", "0", "5", "1", "4">>
    [] s = "claude-sonnet-4-20250514" -> <<"c", "l", "a", "u", "d", "e", "-", "s", "o", "n", "n", "e", "t", "-", "4", "-", "2", "0", "2", "5", "0", "5", "1", "4">>
    [] s = "claude-3-5-sonnet-20241022" -> <<"c", "l", "a", "u", "d", "e", "-", "3", "-", "5", "-", "s", "o", "n", "n", "e", "t", "-", "2", "0", "2", "4", "1", "0", "2", "2">>
    [] s = "claude-3-5-haiku-20241022" -> <<"c", "l", "a", "u", "d", "e", "-", "3", "-", "5", "-", "h", "a", "i", "k", "u", "-", "2", "0", "2", "4", "1", "0", "2", "2">>
    [] s = "claude-3-opus-20240229" -> <<"c", "l", "a", "u", "d", "e", "-", "3", "-", "o", "p", "u", "s", "-", "2", "0", "2", "4", "0", "2", "2", "9">>
    [] s = "claude-3-sonnet-20240229" -> <<"c", "l", "a", "u", "d", "e", "-", "3", "-", "s", "o", "n", "n", "e", "t", "-", "2", "0", "2", "4", "0", "2", "2", "9">>
    [] s = "claude-3-haiku-20240307" -> <<"c", "l", "a", "u", "d", "e", "-", "3", "-", "h", "a", "i", "k", "u", "-", "2", "0", "2", "4", "0", "3", "0", "7">>
    [] s = "gpt-4o" -> <<"g", "p", "t", "-", "4", "o">>
    [] s = "gpt-4o-mini" -> <<"g", "p", "t", "-", "4", "o", "-", "m", "i", "n", "i">>
    [] s = "gpt-4-turbo" -> <<"g", "p", "t", "-", "4", "-", "t", "u", "r", "b", "o">>
    [] s = "gpt-4" -> <<"g", "p", "t", "-", "4">>
    [] s = "gpt-3.5-turbo" -> <<"g", "p", "t", "-", "3", ".", "5", "-", "t", "u", "r", "b", "o">>
    [] s = "o1" -> <<"o", "1">>
    [] s = "o1-mini" -> <<"o", "1", "-", "m", "i", "n", "i">>
    [] s = "o1-preview" -> <<"o", "1", "-", "p", "r", "e", "v", "i", "e", "w">>
    [] s = "gemini-1.5-pro" -> <<"g", "e", "m", "i", "n", "i", "-", "1", ".", "5", "-", "p", "r", "o">>
    [] s = "gemini-1.5-flash" -> <<"g", "e", "m", "i", "n", "i", "-", "1", ".", "5", "-", "f", "l", "a", "s", "h">>
    [] s = "gemini-2.0-flash" -> <<"g", "e", "m", "i", "n", "i", "-", "2", ".", "0", "-", "f", "l", "a", "s", "h">>
    [] s = "mistral-large" -> <<"m", "i", "s", "t", "r", "a", "l", "-", "l", "a", "r", "g", "e">>
    [] s = "mistral-small" -> <<"m", "i", "s", "t", "r", "a", "l", "-", "s", "m", "a", "l", "l">>
    [] s = "codestral" -> <<"c", "o", "d", "e", "s", "t", "r", "a", "l">>
    [] s = "claude-3.5-sonnet" -> <<"c", "l", "a", "u", "d", "e", "-", "3", ".", "5", "-", "s", "o", "n", "n", "e", "t">>
    [] s = "claude-3.5-haiku" -> <<"c", "l", "a", "u", "d", "e", "-", "3", ".", "5", "-", "h", "a", "i", "k", "u">>
    [] s = "gpt-4o-2024-08-06" -> <<"g", "p", "t", "-", "4", "o", "-", "2", "0", "2", "4", "-", "0", "8", "-", "0", "6">>
    [] s = "gpt-4o-2024-05-13" -> <<"g", "p", "t", "-", "4", "o", "-", "2", "0", "2", "4", "-", "0", "5", "-", "1", "3">>
    [] s = "unknown-model-xyz" -> <<"u", "n", "k", "n", "o", "w", "n", "-", "m", "o", "d", "e", "l", "-", "x", "y", "z">>
    [] s = "" -> <<>>
    [] s = "gpt" -> <<"g", "p", "t">>
    [] s = "gpt-4-0613" -> <<"g", "p", "t", "-", "4", "-", "0", "6", "1", "3">>
    [] s = "gpt-4.1" -> <<"g", "p", "t", "-", "4", ".", "1">>
    [] s = "gpt-4o-2024-11-20" -> <<"g", "p", "t", "-", "4", "o", "-", "2", "0", "2", "4", "-", "1", "1", "-", "2", "0">>
    [] s = "gpt-4o-mini-2024-07-18" -> <<"g", "p", "t", "-", "4", "o", "-", "m", "i", "n", "i", "-", "2", "0", "2", "4", "-", "0", "7", "-", "1", "8">>
    [] s = "claude" -> <<"c", "l", "a", "u", "d", "e">>
    [] s = "claude-3-5-sonnet-latest" -> <<"c", "l", "a", "u", "d", "e", "-", "3", "-", "5", "-", "s", "o", "n", "n", "e", "t", "-", "l", "a", "t", "e", "s", "t">>
    [] s = "claude-3.5-sonnet-20241022" -> <<"c", "l", "a", "u", "d", "e", "-", "3", ".", "5", "-", "s", "o", "n", "n", "e", "t", "-", "2", "0", "2", "4", "1", "0", "2", "2">>
    [] s = "claude-3-5-sonnet" -> <<"c", "l", "a", "u", "d", "e", "-", "3", "-", "5", "-", "s", "o", "n", "n", "e", "t">>
    [] s = "o" -> <<"o">>
    [] s = "o1-pro" -> <<"o", "1", "-", "p", "r", "o">>
    [] s = "o3-mini" -> <<"o", "3", "-", "m", "i", "n", "i">>
    [] s = "gemini-1.5" -> <<"g", "e", "m", "i", "n", "i", "-", "1", ".", "5">>
    [] s = "mistral" -> <<"m", "i", "s", "t", "r", "a", "l">>
    [] s = "llama-3-70b" -> <<"l", "l", "a", "m", "a", "-", "3", "-", "7", "0", "b">>

PricingKeys == { PRICING[n].key : n \in 1..Len(PRICING) }

AliasNames == { ALIASES[n].alias : n \in 1..Len(ALIASES) }

ModelNames == PricingKeys \cup AliasNames \cup OtherNames

TokenCounts == { k * TokenStep : k \in 0..MaxTokenSteps }

\* a.startswith(b)
startswith(a, b) ==
  /\ Len(Chars(b)) <= Len(Chars(a))
  /\ SubSeq(Chars(a), 1, Len(Chars(b))) = Chars(b)

\* get_cost without the alias lookup
AliasGetSkipped(model) == model

\* ALIASES.get(model, model)
AliasGet(model) ==
  IF \E n \in 1..Len(ALIASES) : ALIASES[n].alias = model
  THEN ALIASES[CHOOSE n \in 1..Len(ALIASES) : ALIASES[n].alias = model].target
  ELSE model

\* model_key in PRICING
InPricing(model_key) == \E n \in 1..Len(PRICING) : PRICING[n].key = model_key

\* the loop with "model_key = key; break" outside the if
PrefixScanFirstKey(model_key) == PRICING[1].key

\* the loop "for key in PRICING: if ...: model_key = key; break" in the
\* dict's declaration order
PrefixScan(model_key) ==
  LET hits == { n \in 1..Len(PRICING) :
                  \/ startswith(model_key, PRICING[n].key)
                  \/ startswith(PRICING[n].key, model_key) }
  IN  IF hits = {} THEN model_key
      ELSE PRICING[CHOOSE n \in hits : \A m \in hits : n <= m].key

\* lines 62-69 without the "model_key not in PRICING" test: the loop always runs
ResolveKeyAlwaysScans(model) == PrefixScan(AliasGet(model))

\* model_key after lines 62-69
ResolveKey(model) ==
  LET model_key == AliasGet(model)
  IN  IF InPricing(model_key) THEN model_key ELSE PrefixScan(model_key)

\* lines 62-69 evaluated once per model name the host uses
ResolvedKey == [model \in ModelNames |-> ResolveKey(model)]

\* PRICING[model_key]
PriceOf == [model_key \in PricingKeys |->
              CHOOSE e \in { PRICING[n] : n \in 1..Len(PRICING) } : e.key = model_key]

UnknownModelCost == <<0, 0, 0>>

\* get_cost with the output cost computed from the input price
get_cost_one_price(model, input_tokens, output_tokens) ==
  The({ IF model_key \notin PricingKeys THEN UnknownModelCost
        ELSE The({ <<input_cost, output_cost, input_cost + output_cost>> :
                     input_cost  \in {input_tokens * PriceOf[model_key].input_price},
                     output_cost \in {output_tokens * PriceOf[model_key].input_price} }) :
        model_key \in {ResolvedKey[model]} })

get_cost(model, input_tokens, output_tokens) ==
  The({ IF model_key \notin PricingKeys THEN UnknownModelCost
        ELSE The({ <<input_cost, output_cost, input_cost + output_cost>> :
                     input_cost  \in {input_tokens * PriceOf[model_key].input_price},
                     output_cost \in {output_tokens * PriceOf[model_key].output_price} }) :
        model_key \in {ResolvedKey[model]} })

----------------------------------------------------------------------------
(* client.py *)

BaseUrl == "https://api.cost-gpt.com"

\* APIClient.__init__: builds the httpx.Client, sends nothing
APIClient(api_key, base_url) ==
  [api_key |-> api_key, base_url |-> base_url, timeout |-> 10]

\* what happens to the POST of one event
PostOutcomes == {"2xx", "non_2xx", "timeout", "connect_error"}

\* the exception raised inside the try block of send_event: by
\* self._client.post, or by response.raise_for_status()
PostException(outcome) ==
  CASE outcome = "2xx"           -> None
    [] outcome = "non_2xx"       -> Some("httpx.HTTPStatusError")
    [] outcome = "timeout"       -> Some("httpx.ReadTimeout")
    [] outcome = "connect_error" -> Some("httpx.ConnectError")

\* "except httpx.HTTPStatusError" in the place of "except httpx.HTTPError"
CaughtStatusErrorsOnly == {"httpx.HTTPStatusError"}

\* the exception classes "except httpx.HTTPError" catches
CaughtBySendEvent ==
  {"httpx.HTTPStatusError", "httpx.ReadTimeout", "httpx.ConnectError"}

\* a send_event that tries a failed POST a second time
send_event_retries(id, outcome) ==
  IF outcome = "2xx"
  THEN <<[id |-> id, outcome |-> outcome]>>
  ELSE <<[id |-> id, outcome |-> outcome], [id |-> id, outcome |-> outcome]>>

\* "response = self._client.post("/v1/events", json=...)": the POST requests
\* one send_event issues for the event with this id
send_event_posts(id, outcome) == <<[id |-> id, outcome |-> outcome]>>

\* requests that are put in front of the ones already issued
issue_front(issued, attempts) == attempts \o issued

\* the requests of one send_event follow, in program order, every request
\* issued before: the POST is synchronous and is over when send_event returns
issue(issued, attempts) == issued \o attempts

\* the exception send_event lets through to its caller, None when it returns
send_event_raises(outcome) ==
  The({ IF exc # None /\ exc[1] \notin CaughtBySendEvent THEN exc ELSE None :
        exc \in {PostException(outcome)} })

----------------------------------------------------------------------------
(* tracker.py *)

ApiKeys == {None, Some(""), Some("sk-test")}

DefaultUserIds == {None, Some("default-user")}

DefaultFeatures == {None, Some("default-feature")}

\* a constructor that leaves the client to be made later
CostTrackerWithoutClient(api_key, default_user_id, default_feature) ==
  [api_key         |-> api_key,
   api_url         |-> BaseUrl,
   default_user_id |-> default_user_id,
   default_feature |-> default_feature,
   client          |-> None]

\* CostTracker.__init__
CostTracker(api_key, default_user_id, default_feature) ==
  [api_key         |-> api_key,
   api_url         |-> BaseUrl,
   default_user_id |-> default_user_id,
   default_feature |-> default_feature,
   client          |-> IF Truthy(api_key)
                       THEN Some(APIClient(api_key[1], BaseUrl))
                       ELSE None]

Trackers ==
  { CostTracker(k, u, f) : k \in ApiKeys, u \in DefaultUserIds, f \in DefaultFeatures }

\* user_id or self.default_user_id
EffectiveUserId(t, user_id) == PyOr(user_id, t.default_user_id)

\* feature or self.default_feature
EffectiveFeature(t, feature) == PyOr(feature, t.default_feature)

\* the UsageEvent built by track(); id and timestamp are the uuid4() and the
\* now() of the id-th event of the process
UsageEvent(t, id, model, input_tokens, output_tokens, user_id, feature, duration_ms, metadata) ==
  The({ [id            |-> id,
         timestamp     |-> id,
         model         |-> model,
         input_tokens  |-> input_tokens,
         output_tokens |-> output_tokens,
         input_cost    |-> cost[1],
         output_cost   |-> cost[2],
         total_cost    |-> cost[3],
         duration_ms   |-> duration_ms,
         user_id       |-> EffectiveUserId(t, user_id),
         feature       |-> EffectiveFeature(t, feature),
         metadata      |-> IF metadata = None THEN {} ELSE metadata[1]] :
        cost \in {get_cost(model, input_tokens, output_tokens)} })

\* CostTracker.track: the event, whether it was handed to the client, the
\* POST requests issued for it, and the
\* exception that leaves track() (None when it returns the event)
track(t, id, model, input_tokens, output_tokens, user_id, feature, duration_ms, metadata, outcome) ==
  The({ [event    |-> event,
         sent     |-> t.client # None,
         attempts |-> IF t.client # None
                      THEN send_event_posts(event.id, outcome)
                      ELSE <<>>,
         outcome  |-> IF t.client # None THEN Some(outcome) ELSE None,
         raised   |-> raised,
         returned |-> IF raised = None THEN Some(event) ELSE None] :
        event  \in {UsageEvent(t, id, model, input_tokens, output_tokens,
                               user_id, feature, duration_ms, metadata)},
        raised \in {IF t.client # None THEN send_event_raises(outcome) ELSE None} })

----------------------------------------------------------------------------
(* instruments/openai.py and instruments/anthropic.py *)

Providers == {"openai", "anthropic"}

\* the SDK's own create method: Completions.create, Messages.create
Original(p) == [fn |-> "create", of |-> p, gen |-> 0]

\* the n-th tracked_create closure
Wrapper(p, n) == [fn |-> "tracked_create", of |-> p, gen |-> n]

\* an optional callable that is a tracked_create
IsWrapper(c) == c # None /\ c[1].fn = "tracked_create"

\* what the SDK's own create does in one call: it returns a response, whose
\* usage may be missing, or it raises
ResponseModel(p) == IF p = "openai" THEN "gpt-4o" ELSE "claude-sonnet-4-20250514"

Usages == {None, Some([input |-> MaxTokenSteps * TokenStep, output |-> TokenStep])}

Responses(p) == { [exc |-> None, model |-> ResponseModel(p), usage |-> u] : u \in Usages }

ApiFailure == [exc |-> Some("APIError"), model |-> "", usage |-> None]

OriginalOutcomes(p) == Responses(p) \cup {ApiFailure}

AnyOutcomes == UNION { OriginalOutcomes(p) : p \in Providers }

\* int((time.perf_counter() - start) * 1000)
MeasuredDurations == {0, 12}

\* a call that never got as far as tracker.track
Untracked(returned, raised, orig_calls) ==
  [returned |-> returned, raised |-> raised, orig_calls |-> orig_calls, track |-> None]

\* a create whose exception is swallowed
call_original_swallowing(res) ==
  Untracked(IF res.exc = None THEN Some(res) ELSE None, None, 1)

\* the SDK's create called directly
call_original(res) ==
  Untracked(IF res.exc = None THEN Some(res) ELSE None, res.exc, 1)

\* the import error swallowed
ImportNeverFails(p) == FALSE

\* "try: import <sdk> / except ImportError: raise ImportError(...)"
ImportFails(p) == ~lib[p]

\* instrument without its already-instrumented check
NeverAlreadyInstrumented(p) == FALSE

\* "if _original_create is not None: return" of instrument
AlreadyInstrumented(p) == original_create[p] # None

\* uninstrument without its not-instrumented check
NeverNotInstrumented(p) == FALSE

\* "if _original_create is None: return" of uninstrument
NotInstrumented(p) == original_create[p] = None

\* uninstrument that clears the globals and leaves the wrapper in place
SlotKept(p) == slot[p]

\* "<sdk>...create = _original_create" of uninstrument
SlotRestored(p) == original_create[p]

\* a tracked_create found in the global is called through to the SDK
captured_call_reaches_sdk(p, res) ==
  IF original_create[p] = None THEN Untracked(None, Some("TypeError"), 0)
  ELSE call_original(res)

\* "result = _original_create(self, *args, **kwargs)": the module global is
\* read at call time.  None is not callable; a tracked_create found there
\* calls the same global again and never reaches the SDK.
captured_call(p, res) ==
  IF original_create[p] = None THEN Untracked(None, Some("TypeError"), 0)
  ELSE IF original_create[p][1].fn = "tracked_create"
       THEN Untracked(None, Some("RecursionError"), 0)
       ELSE call_original(res)

\* "_tracker.track(model=..., input_tokens=..., output_tokens=..., duration_ms=...)"
tracker_track(p, id, res, duration_ms, outcome) ==
  IF tracker[p] = None \/ res.usage = None
  THEN Untracked(None, Some("AttributeError"), 1)
  ELSE The({ [returned   |-> IF tr.raised = None THEN Some(res) ELSE None,
              raised     |-> tr.raised,
              orig_calls |-> 1,
              track      |-> Some(tr)] :
             tr \in {track(tracker[p][1], id, res.model, res.usage[1].input,
                           res.usage[1].output, None, None, Some(duration_ms),
                           None, outcome)} })

\* openai.py tracked_create
tracked_create_openai(id, res, duration_ms, outcome) ==
  The({ IF inner.raised # None THEN inner
        ELSE IF res.usage # None
             THEN tracker_track("openai", id, res, duration_ms, outcome)
             ELSE inner :
        inner \in {captured_call("openai", res)} })

\* anthropic.py tracked_create
tracked_create_anthropic(id, res, duration_ms, outcome) ==
  The({ IF inner.raised # None THEN inner
        ELSE tracker_track("anthropic", id, res, duration_ms, outcome) :
        inner \in {captured_call("anthropic", res)} })

\* tracked_create after the original returned res: duration_ms, the usage
\* test of openai.py, the track() call, "return result"
after_original(p, id, res, duration_ms, outcome) ==
  IF p = "openai" /\ res.usage = None THEN Untracked(Some(res), None, 1)
  ELSE tracker_track(p, id, res, duration_ms, outcome)

\* the host calls client.chat.completions.create / client.messages.create
call_slot(p, id, res, duration_ms, outcome) ==
  IF slot[p] = None THEN Untracked(None, Some("TypeError"), 0)
  ELSE IF slot[p][1].fn # "tracked_create" THEN call_original(res)
  ELSE IF p = "openai" THEN tracked_create_openai(id, res, duration_ms, outcome)
  ELSE tracked_create_anthropic(id, res, duration_ms, outcome)

\* what a function decorated with track_usage does in one call: it returns
\* an object with usage, an object without, or it raises
FnOutcomes ==
  { [exc |-> None, model |-> "", usage |-> u] : u \in Usages } \cup {ApiFailure}

\* tracker.py track_usage: wrapper.  fn is called first; the token counts are
\* getattr(getattr(result, 'usage', None), ..., 0); track() is always called
track_usage_wrapper(t, id, model, user_id, feature, res, duration_ms, outcome) ==
  IF res.exc # None THEN Untracked(None, res.exc, 1)
  ELSE The({ [returned   |-> IF tr.raised = None THEN Some(res) ELSE None,
              raised     |-> tr.raised,
              orig_calls |-> 1,
              track      |-> Some(tr)] :
             tr \in {track(t, id, model,
                           IF res.usage = None THEN 0 ELSE res.usage[1].input,
                           IF res.usage = None THEN 0 ELSE res.usage[1].output,
                           user_id, feature, Some(duration_ms), None, outcome)} })

----------------------------------------------------------------------------
(* The state machine *)

\* the threads of the host process
Threads == {"t1", "t2"}

\* a thread that is in no call of this package
Idle == [pc |-> "idle"]

Init ==
  /\ lib \in [Providers -> BOOLEAN]
  /\ slot = [p \in Providers |-> IF lib[p] THEN Some(Original(p)) ELSE None]
  /\ original_create = [p \in Providers |-> None]
  /\ tracker = [p \in Providers |-> None]
  /\ made = 0
  /\ nextId = 0
  /\ posts = <<>>
  /\ inflight = [th \in Threads |-> Idle]
  /\ lastOp = [op |-> "init"]

\* CostTracker(api_key=..., default_user_id=..., default_feature=...)
Construct(api_key, default_user_id, default_feature) ==
  /\ lastOp' = [op |-> "construct",
                tracker |-> CostTracker(api_key, default_user_id, default_feature)]
  /\ UNCHANGED <<lib, slot, original_create, tracker, made, nextId, posts, inflight>>

\* instrument(tracker)
Instrument(p, t) ==
  IF ImportFails(p) THEN
    /\ lastOp' = [op |-> "instrument", provider |-> p, tracker |-> t,
                  raised |-> Some("ImportError")]
    /\ UNCHANGED <<lib, slot, original_create, tracker, made, nextId, posts, inflight>>
  ELSE IF AlreadyInstrumented(p) THEN
    /\ lastOp' = [op |-> "instrument", provider |-> p, tracker |-> t, raised |-> None]
    /\ UNCHANGED <<lib, slot, original_create, tracker, made, nextId, posts, inflight>>
  ELSE
    /\ made < MaxInstalls
    /\ tracker' = [tracker EXCEPT ![p] = Some(t)]
    /\ original_create' = [original_create EXCEPT ![p] = slot[p]]
    /\ slot' = [slot EXCEPT ![p] = Some(Wrapper(p, made + 1))]
    /\ made' = made + 1
    /\ lastOp' = [op |-> "instrument", provider |-> p, tracker |-> t, raised |-> None]
    /\ UNCHANGED <<lib, nextId, posts, inflight>>

\* uninstrument()
Uninstrument(p) ==
  /\ lastOp' = [op |-> "uninstrument", provider |-> p, raised |-> None]
  /\ IF NotInstrumented(p) \/ ImportFails(p)
     THEN UNCHANGED <<slot, original_create, tracker>>
     ELSE /\ slot' = [slot EXCEPT ![p] = SlotRestored(p)]
          /\ original_create' = [original_create EXCEPT ![p] = None]
          /\ tracker' = [tracker EXCEPT ![p] = None]
  /\ UNCHANGED <<lib, made, nextId, posts, inflight>>

\* one call of the SDK's create attribute by the host
HostCall(p, res, duration_ms, outcome) ==
  /\ lib[p]
  /\ nextId < MaxCalls
  /\ \E r \in {call_slot(p, nextId + 1, res, duration_ms, outcome)} :
         /\ nextId' = IF r.track # None THEN nextId + 1 ELSE nextId
         /\ posts' = IF r.track # None
                     THEN issue(posts, r.track[1].attempts)
                     ELSE posts
         /\ lastOp' = [op         |-> "call",
                       provider   |-> p,
                       wrapped    |-> slot[p] # None /\ slot[p][1].fn = "tracked_create",
                       result     |-> res,
                       returned   |-> r.returned,
                       raised     |-> r.raised,
                       orig_calls |-> r.orig_calls,
                       track      |-> r.track]
  /\ UNCHANGED <<lib, slot, original_create, tracker, made, inflight>>

\* the model name given to the track_usage decorator
DecoratorModels == {"gpt-4o-mini"}

\* one call of a function decorated with @track_usage(t, model, user_id, feature)
DecoratedCall(t, model, user_id, feature, res, duration_ms, outcome) ==
  /\ nextId < MaxCalls
  /\ \E r \in {track_usage_wrapper(t, nextId + 1, model, user_id, feature,
                                   res, duration_ms, outcome)} :
         /\ nextId' = IF r.track # None THEN nextId + 1 ELSE nextId
         /\ posts' = IF r.track # None
                     THEN issue(posts, r.track[1].attempts)
                     ELSE posts
         /\ lastOp' = [op         |-> "decorated",
                       tracker    |-> t,
                       model      |-> model,
                       result     |-> res,
                       returned   |-> r.returned,
                       raised     |-> r.raised,
                       orig_calls |-> r.orig_calls,
                       track      |-> r.track]
  /\ UNCHANGED <<lib, slot, original_create, tracker, made, inflight>>

\* tracker.track(...) called by the host itself
UserIds == {None, Some(""), Some("user-1")}

Features == {None, Some(""), Some("chat")}

Durations == {None, Some(12)}

Metadatas == {None}

TrackModels == {"gpt-4o", "unknown-model-xyz"}

\* the POST outcomes a call on tracker t can meet: without a client there is
\* no POST
OutcomesFor(t) == IF t.client # None THEN PostOutcomes ELSE {"2xx"}

\* the trackers the host instruments the SDKs with: one that reports to the
\* collector, one that only computes
HookTrackers ==
  { CostTracker(Some("sk-test"), None, None),
    CostTracker(None, Some("default-user"), Some("default-feature")) }

Track(t, model, input_tokens, output_tokens, user_id, feature, duration_ms, metadata, outcome) ==
  /\ nextId < MaxCalls
  /\ \E tr \in {track(t, nextId + 1, model, input_tokens, output_tokens,
                      user_id, feature, duration_ms, metadata, outcome)} :
         /\ nextId' = nextId + 1
         /\ posts' = issue(posts, tr.attempts)
         /\ lastOp' = [op       |-> "track",
                       tracker  |-> t,
                       args     |-> [model         |-> model,
                                     input_tokens  |-> input_tokens,
                                     output_tokens |-> output_tokens,
                                     user_id       |-> user_id,
                                     feature       |-> feature,
                                     duration_ms   |-> duration_ms,
                                     metadata      |-> metadata],
                       id       |-> nextId + 1,
                       outcome  |-> tr.outcome,
                       sent     |-> tr.sent,
                       returned |-> tr.returned,
                       raised   |-> tr.raised]
  /\ UNCHANGED <<lib, slot, original_create, tracker, made, inflight>>

\* get_cost(model, input_tokens, output_tokens) called by the host itself
GetCost(model, input_tokens, output_tokens) ==
  /\ lastOp' = [op            |-> "get_cost",
                model         |-> model,
                input_tokens  |-> input_tokens,
                output_tokens |-> output_tokens,
                returned      |-> get_cost(model, input_tokens, output_tokens)]
  /\ UNCHANGED <<lib, slot, original_create, tracker, made, nextId, posts, inflight>>

\* a tracker without defaults and without a collector
PlainTracker == CostTracker(None, None, None)

\* the instrumentation: construction, install, uninstall, host calls
Next ==
  \/ \E t \in HookTrackers : Construct(t.api_key, t.default_user_id, t.default_feature)
  \/ \E p \in Providers, t \in HookTrackers : Instrument(p, t)
  \/ \E p \in Providers : Uninstrument(p)
  \/ \E p \in Providers, d \in MeasuredDurations, outcome \in PostOutcomes :
        \E res \in OriginalOutcomes(p) : HostCall(p, res, d, outcome)
  \/ \E t \in HookTrackers, model \in DecoratorModels, res \in FnOutcomes,
        d \in MeasuredDurations :
          \E outcome \in OutcomesFor(t) :
            DecoratedCall(t, model, None, Some("chat"), res, d, outcome)

Spec == Init /\ [][Next]_vars

\* both SDKs present, nothing instrumented
InitPlain == Init /\ \A p \in Providers : lib[p]

\* explicit tracking: construction and track() with every argument
NextTrack ==
  \/ \E k \in ApiKeys, u \in DefaultUserIds, f \in DefaultFeatures : Construct(k, u, f)
  \/ \E t \in Trackers, model \in TrackModels, user_id \in UserIds, feature \in Features,
        d \in Durations, md \in Metadatas :
          \E outcome \in OutcomesFor(t) :
            Track(t, model, MaxTokenSteps * TokenStep, TokenStep,
                  user_id, feature, d, md, outcome)

SpecTrack == InitPlain /\ [][NextTrack]_vars

\* pricing: get_cost, and track() on a plain tracker, over every model name
NextPricing ==
  \/ \E model \in ModelNames, i \in TokenCounts, o \in TokenCounts : GetCost(model, i, o)
  \/ \E model \in ModelNames, i \in TokenCounts, o \in TokenCounts :
        Track(PlainTracker, model, i, o, None, None, None, None, "2xx")

SpecPricing == InitPlain /\ [][NextPricing]_vars

----------------------------------------------------------------------------
(* Threads: instrument, uninstrument and tracked_create statement by         *)
(* statement.  Nothing in the package holds a lock, so another thread may    *)
(* run between any two statements; a statement is taken as one step.         *)

InstrumentPcs == {"instrument_set_tracker", "instrument_capture", "instrument_patch"}

CallPcs == {"call_enter", "call_original", "call_track"}

\* installs done or under way, calls that may still create an event
InstallsStarted == made + Cardinality({ th \in Threads : inflight[th].pc \in InstrumentPcs })

CallsStarted == nextId + Cardinality({ th \in Threads : inflight[th].pc \in CallPcs })

\* the provider as a completed instrument leaves it
Installed(p) ==
  /\ IsWrapper(slot[p])
  /\ original_create[p] = Some(Original(p))
  /\ tracker[p] # None

\* instrument up to and including "if _original_create is not None: return"
InstrumentBegin(th, p, t) ==
  /\ inflight[th] = Idle
  /\ IF ImportFails(p) THEN
       /\ lastOp' = [op |-> "instrument", provider |-> p, tracker |-> t,
                     raised |-> Some("ImportError")]
       /\ UNCHANGED inflight
     ELSE IF AlreadyInstrumented(p) THEN
       /\ lastOp' = [op |-> "instrument", provider |-> p, tracker |-> t, raised |-> None]
       /\ UNCHANGED inflight
     ELSE
       /\ InstallsStarted < MaxInstalls
       /\ inflight' = [inflight EXCEPT ![th] =
                         [pc |-> "instrument_set_tracker", provider |-> p, tracker |-> t]]
       /\ UNCHANGED lastOp
  /\ UNCHANGED <<lib, slot, original_create, tracker, made, nextId, posts>>

\* "_tracker = tracker"
InstrumentSetTracker(th) ==
  /\ inflight[th].pc = "instrument_set_tracker"
  /\ tracker' = [tracker EXCEPT ![inflight[th].provider] = Some(inflight[th].tracker)]
  /\ inflight' = [inflight EXCEPT ![th].pc = "instrument_capture"]
  /\ UNCHANGED <<lib, slot, original_create, made, nextId, posts, lastOp>>

\* "_original_create = <sdk>...create"
InstrumentCapture(th) ==
  /\ inflight[th].pc = "instrument_capture"
  /\ original_create' = [original_create EXCEPT ![inflight[th].provider] =
                           slot[inflight[th].provider]]
  /\ inflight' = [inflight EXCEPT ![th].pc = "instrument_patch"]
  /\ UNCHANGED <<lib, slot, tracker, made, nextId, posts, lastOp>>

\* "def tracked_create ..." and "<sdk>...create = tracked_create"
InstrumentPatch(th) ==
  /\ inflight[th].pc = "instrument_patch"
  /\ slot' = [slot EXCEPT ![inflight[th].provider] =
                Some(Wrapper(inflight[th].provider, made + 1))]
  /\ made' = made + 1
  /\ inflight' = [inflight EXCEPT ![th] = Idle]
  /\ lastOp' = [op |-> "instrument", provider |-> inflight[th].provider,
                tracker |-> inflight[th].tracker, raised |-> None]
  /\ UNCHANGED <<lib, original_create, tracker, nextId, posts>>

\* uninstrument up to and including the import
UninstrumentBegin(th, p) ==
  /\ inflight[th] = Idle
  /\ IF NotInstrumented(p) \/ ImportFails(p) THEN
       /\ lastOp' = [op |-> "uninstrument", provider |-> p, raised |-> None,
                     restored |-> None]
       /\ UNCHANGED inflight
     ELSE
       /\ inflight' = [inflight EXCEPT ![th] =
                         [pc |-> "uninstrument_restore", provider |-> p, restored |-> None]]
       /\ UNCHANGED lastOp
  /\ UNCHANGED <<lib, slot, original_create, tracker, made, nextId, posts>>

\* "<sdk>...create = _original_create"
UninstrumentRestore(th) ==
  /\ inflight[th].pc = "uninstrument_restore"
  /\ slot' = [slot EXCEPT ![inflight[th].provider] = SlotRestored(inflight[th].provider)]
  /\ inflight' = [inflight EXCEPT ![th] =
                    [pc |-> "uninstrument_clear_original",
                     provider |-> inflight[th].provider,
                     restored |-> Some(SlotRestored(inflight[th].provider))]]
  /\ UNCHANGED <<lib, original_create, tracker, made, nextId, posts, lastOp>>

\* "_original_create = None"
UninstrumentClearOriginal(th) ==
  /\ inflight[th].pc = "uninstrument_clear_original"
  /\ original_create' = [original_create EXCEPT ![inflight[th].provider] = None]
  /\ inflight' = [inflight EXCEPT ![th].pc = "uninstrument_clear_tracker"]
  /\ UNCHANGED <<lib, slot, tracker, made, nextId, posts, lastOp>>

\* "_tracker = None"
UninstrumentClearTracker(th) ==
  /\ inflight[th].pc = "uninstrument_clear_tracker"
  /\ tracker' = [tracker EXCEPT ![inflight[th].provider] = None]
  /\ inflight' = [inflight EXCEPT ![th] = Idle]
  /\ lastOp' = [op |-> "uninstrument", provider |-> inflight[th].provider,
                raised |-> None, restored |-> inflight[th].restored]
  /\ UNCHANGED <<lib, slot, original_create, made, nextId, posts>>

\* what the host got back from the call c, in which the SDK's create would
\* have done res
CallDone(c, res, r) ==
  [op                 |-> "call",
   provider           |-> c.provider,
   wrapped            |-> IsWrapper(c.fn),
   result             |-> res,
   returned           |-> r.returned,
   raised             |-> r.raised,
   orig_calls         |-> r.orig_calls,
   track              |-> r.track,
   installed_at_ref   |-> c.installed_at_ref,
   installed_at_entry |-> c.installed_at_entry,
   captured           |-> c.captured]

\* the host evaluates client.chat.completions.create / client.messages.create:
\* it now holds what the slot holds
CallBegin(th, p) ==
  /\ inflight[th] = Idle
  /\ lib[p]
  /\ CallsStarted < MaxCalls
  /\ inflight' = [inflight EXCEPT ![th] =
                    [pc                 |-> "call_enter",
                     provider           |-> p,
                     fn                 |-> slot[p],
                     installed_at_ref   |-> Installed(p),
                     installed_at_entry |-> FALSE,
                     captured           |-> None,
                     result             |-> None]]
  /\ UNCHANGED <<lib, slot, original_create, tracker, made, nextId, posts, lastOp>>

\* the host calls what it holds: the SDK's create runs at once, a
\* tracked_create starts with "start = time.perf_counter()"
CallEnter(th, res) ==
  /\ inflight[th].pc = "call_enter"
  /\ res \in OriginalOutcomes(inflight[th].provider)
  /\ IF IsWrapper(inflight[th].fn) THEN
       /\ inflight' = [inflight EXCEPT ![th].pc = "call_original",
                                       ![th].installed_at_entry =
                                          Installed(inflight[th].provider)]
       /\ UNCHANGED lastOp
     ELSE
       /\ inflight' = [inflight EXCEPT ![th] = Idle]
       /\ lastOp' = CallDone(inflight[th], res,
                             IF inflight[th].fn = None
                             THEN Untracked(None, Some("TypeError"), 0)
                             ELSE call_original(res))
  /\ UNCHANGED <<lib, slot, original_create, tracker, made, nextId, posts>>

\* "result = _original_create(self, *args, **kwargs)"
CallOriginal(th, res) ==
  /\ inflight[th].pc = "call_original"
  /\ res \in OriginalOutcomes(inflight[th].provider)
  /\ \E r \in {captured_call(inflight[th].provider, res)},
        c \in {[inflight[th] EXCEPT !.captured = original_create[inflight[th].provider]]} :
         IF r.raised # None THEN
           /\ inflight' = [inflight EXCEPT ![th] = Idle]
           /\ lastOp' = CallDone(c, res, r)
         ELSE
           /\ inflight' = [inflight EXCEPT ![th] =
                             [c EXCEPT !.pc = "call_track", !.result = Some(res)]]
           /\ UNCHANGED lastOp
  /\ UNCHANGED <<lib, slot, original_create, tracker, made, nextId, posts>>

\* the rest of tracked_create: duration_ms, tracking, "return result"
CallTrack(th, duration_ms, outcome) ==
  /\ inflight[th].pc = "call_track"
  /\ \E r \in {after_original(inflight[th].provider, nextId + 1,
                              inflight[th].result[1], duration_ms, outcome)} :
         /\ nextId' = IF r.track # None THEN nextId + 1 ELSE nextId
         /\ posts' = IF r.track # None
                     THEN issue(posts, r.track[1].attempts)
                     ELSE posts
         /\ lastOp' = CallDone(inflight[th], inflight[th].result[1], r)
  /\ inflight' = [inflight EXCEPT ![th] = Idle]
  /\ UNCHANGED <<lib, slot, original_create, tracker, made>>

\* the tracker the threads instrument with
RaceTrackers == { CostTracker(Some("sk-test"), None, None) }

\* the POST of a tracked call succeeds or fails; one measured duration
RaceOutcomes == {"2xx", "connect_error"}

RaceDurations == {12}

NextRace ==
  \/ \E th \in Threads, p \in Providers, t \in RaceTrackers : InstrumentBegin(th, p, t)
  \/ \E th \in Threads : InstrumentSetTracker(th)
  \/ \E th \in Threads : InstrumentCapture(th)
  \/ \E th \in Threads : InstrumentPatch(th)
  \/ \E th \in Threads, p \in Providers : UninstrumentBegin(th, p)
  \/ \E th \in Threads : UninstrumentRestore(th)
  \/ \E th \in Threads : UninstrumentClearOriginal(th)
  \/ \E th \in Threads : UninstrumentClearTracker(th)
  \/ \E th \in Threads, p \in Providers : CallBegin(th, p)
  \/ \E th \in Threads, res \in AnyOutcomes : CallEnter(th, res)
  \/ \E th \in Threads, res \in AnyOutcomes : CallOriginal(th, res)
  \/ \E th \in Threads, d \in RaceDurations, outcome \in RaceOutcomes :
        CallTrack(th, d, outcome)

\* a process in which one of the two SDKs is installed
InitOneSdk == Init /\ \E p \in Providers : lib[p] /\ \A q \in Providers \ {p} : ~lib[q]

SpecRace == InitOneSdk /\ [][NextRace]_vars

----------------------------------------------------------------------------
(* Claims *)

\* the callable at the SDK's create attribute before any install
PristineSlot(p) == IF lib[p] THEN Some(Original(p)) ELSE None

\* C1: whenever a host call goes through an installed wrapper and the SDK's
\* own create returned a result, the host receives exactly that result and no
\* exception, whatever happened to the tracking.
C1_WrapperReturnsOriginalResult ==
  (lastOp.op = "call" /\ lastOp.wrapped /\ lastOp.result.exc = None)
    => (lastOp.returned = Some(lastOp.result) /\ lastOp.raised = None)

\* C2: a track() call on a tracker that has a client never raises, whatever
\* the outcome of the POST, and returns the event it returns when the POST
\* succeeds.
C2_TrackUnaffectedByDispatch ==
  (lastOp.op = "track" /\ lastOp.sent)
    => /\ lastOp.raised = None
       /\ lastOp.returned # None
       /\ lastOp.returned =
            track(lastOp.tracker, lastOp.id, lastOp.args.model,
                  lastOp.args.input_tokens, lastOp.args.output_tokens,
                  lastOp.args.user_id, lastOp.args.feature,
                  lastOp.args.duration_ms, lastOp.args.metadata, "2xx").returned

C2_Witness ==
  /\ lastOp.op = "track"
  /\ lastOp.sent
  /\ lastOp.outcome = Some("timeout")
  /\ lastOp.returned # None

\* C3: instrument on an instrumented SDK changes nothing: the slot keeps its
\* one wrapper, the captured original is the SDK's own create and never a
\* wrapper, the owning tracker stays, and a wrapped host call whose result has
\* usage data reaches the SDK once and calls track() once.
C3_SecondInstallIsNoOp ==
  /\ [](\A p \in Providers :
          original_create[p] # None
            => /\ original_create[p] = Some(Original(p))
               /\ IsWrapper(slot[p])
               /\ tracker[p] # None)
  /\ [][(lastOp'.op = "instrument" /\ original_create[lastOp'.provider] # None)
          => /\ lastOp'.raised = None
             /\ slot' = slot
             /\ original_create' = original_create
             /\ tracker' = tracker]_vars
  /\ []((lastOp.op = "call" /\ lastOp.wrapped /\ lastOp.result.usage # None)
          => (lastOp.orig_calls = 1 /\ lastOp.track # None))

C3_Witness ==
  /\ lastOp.op = "instrument"
  /\ lastOp.raised = None
  /\ tracker[lastOp.provider] # None
  /\ tracker[lastOp.provider] # Some(lastOp.tracker)
  /\ slot[lastOp.provider] = Some(Wrapper(lastOp.provider, 1))

\* C4: instrument for an SDK that cannot be imported raises ImportError and
\* changes nothing: no captured original, no owning tracker, the slot as it was.
C4_MissingLibraryInstallFails ==
  /\ [](\A p \in Providers :
          ~lib[p] => (slot[p] = None /\ original_create[p] = None /\ tracker[p] = None))
  /\ [][(lastOp'.op = "instrument" /\ ~lib[lastOp'.provider])
          => /\ lastOp'.raised = Some("ImportError")
             /\ slot' = slot
             /\ original_create' = original_create
             /\ tracker' = tracker]_vars

C4_Witness ==
  /\ lastOp.op = "instrument"
  /\ ~lib[lastOp.provider]
  /\ lastOp.raised = Some("ImportError")
  /\ original_create[lastOp.provider] = None

\* C5: right after uninstrument the slot holds the callable that was there
\* before the first install and both globals are None; an instrument on an
\* importable SDK that is not instrumented succeeds and captures that callable.
C5_UninstallRestoresOriginal ==
  /\ [](lastOp.op = "uninstrument"
          => /\ slot[lastOp.provider] = PristineSlot(lastOp.provider)
             /\ original_create[lastOp.provider] = None
             /\ tracker[lastOp.provider] = None)
  /\ [][(/\ lastOp'.op = "instrument"
         /\ lib[lastOp'.provider]
         /\ original_create[lastOp'.provider] = None)
          => /\ lastOp'.raised = None
             /\ original_create'[lastOp'.provider] = Some(Original(lastOp'.provider))
             /\ tracker'[lastOp'.provider] = Some(lastOp'.tracker)
             /\ IsWrapper(slot'[lastOp'.provider])]_vars

\* the second successful install of the only importable SDK: an uninstall
\* lies between the two
C5_Witness ==
  /\ lastOp.op = "instrument"
  /\ lastOp.provider = "openai"
  /\ ~lib["anthropic"]
  /\ made = 2
  /\ slot["openai"] = Some(Wrapper("openai", 2))
  /\ original_create["openai"] = Some(Original("openai"))

\* C6: uninstrument on an SDK that is not instrumented leaves the slot and
\* both globals as they were and raises nothing.
C6_UninstallWhenNotInstalledIsNoOp ==
  [][(lastOp'.op = "uninstrument" /\ original_create[lastOp'.provider] = None)
       => /\ lastOp'.raised = None
          /\ slot' = slot
          /\ original_create' = original_create
          /\ tracker' = tracker]_vars

C6_Witness ==
  /\ lastOp.op = "uninstrument"
  /\ lib[lastOp.provider]
  /\ made = 0
  /\ slot[lastOp.provider] = Some(Original(lastOp.provider))

\* a name that is no alias, no key, and in no prefix relation with a key
Unrelated(model) ==
  /\ \A n \in 1..Len(ALIASES) : ALIASES[n].alias # model
  /\ \A n \in 1..Len(PRICING) :
       /\ PRICING[n].key # model
       /\ ~startswith(model, PRICING[n].key)
       /\ ~startswith(PRICING[n].key, model)

\* C7: for a model name that is no alias, no key and in no prefix relation
\* with a key, get_cost returns (0, 0, 0) and track() returns an event with
\* these three zero costs.
C7_UnknownModelCostsNothing ==
  /\ (lastOp.op = "get_cost" /\ Unrelated(lastOp.model))
       => lastOp.returned = <<0, 0, 0>>
  /\ (lastOp.op = "track" /\ Unrelated(lastOp.args.model))
       => /\ lastOp.raised = None
          /\ lastOp.returned # None
          /\ lastOp.returned[1].input_cost = 0
          /\ lastOp.returned[1].output_cost = 0
          /\ lastOp.returned[1].total_cost = 0

C7_Witness ==
  /\ lastOp.op = "track"
  /\ lastOp.args.model = "unknown-model-xyz"
  /\ lastOp.args.input_tokens > 0
  /\ lastOp.args.output_tokens > 0
  /\ lastOp.returned # None
  /\ lastOp.returned[1].total_cost = 0

\* the price-table entries a name resolves to after the alias step: the exact
\* key, or else every key in a prefix relation with the name
Candidates(model) ==
  LET name == IF \E n \in 1..Len(ALIASES) : ALIASES[n].alias = model
              THEN (CHOOSE a \in {ALIASES[n] : n \in 1..Len(ALIASES)} : a.alias = model).target
              ELSE model
      exact == { n \in 1..Len(PRICING) : PRICING[n].key = name }
  IN  IF exact # {} THEN exact
      ELSE { n \in 1..Len(PRICING) :
               \/ startswith(name, PRICING[n].key)
               \/ startswith(PRICING[n].key, name) }

\* C8: every event track() returns has total_cost = input_cost + output_cost,
\* no negative cost, and, when the name resolves, input_cost = input_tokens
\* times the input price and output_cost = output_tokens times the output
\* price of one entry the name resolves to.
C8_EventCostInvariants ==
  (lastOp.op = "track" /\ lastOp.returned # None)
    => LET e == lastOp.returned[1]
       IN  /\ e.total_cost = e.input_cost + e.output_cost
           /\ e.input_cost >= 0
           /\ e.output_cost >= 0
           /\ e.total_cost >= 0
           /\ e.model = lastOp.args.model
           /\ e.input_tokens = lastOp.args.input_tokens
           /\ e.output_tokens = lastOp.args.output_tokens
           /\ Candidates(e.model) # {}
                => \E n \in Candidates(e.model) :
                     /\ e.input_cost = e.input_tokens * PRICING[n].input_price
                     /\ e.output_cost = e.output_tokens * PRICING[n].output_price
           /\ Candidates(e.model) = {}
                => (e.input_cost = 0 /\ e.output_cost = 0)

\* track("gpt-4o", 1000, 500): 0.0025 + 0.005 = 0.0075 USD
C8_Witness ==
  /\ lastOp.op = "track"
  /\ lastOp.returned # None
  /\ lastOp.args.model = "gpt-4o"
  /\ lastOp.args.input_tokens = 1000
  /\ lastOp.args.output_tokens = 500
  /\ lastOp.returned[1].input_cost = 2500000
  /\ lastOp.returned[1].output_cost = 5000000
  /\ lastOp.returned[1].total_cost = 7500000

\* C9: get_cost of an alias equals get_cost of the alias's canonical id for
\* the same token counts, and every canonical id is a key of the price table.
C9_AliasCostsAsCanonical ==
  \A n \in 1..Len(ALIASES) :
    /\ \E k \in 1..Len(PRICING) : PRICING[k].key = ALIASES[n].target
    /\ (lastOp.op = "get_cost" /\ lastOp.model = ALIASES[n].alias)
         => lastOp.returned =
              get_cost(ALIASES[n].target, lastOp.input_tokens, lastOp.output_tokens)

C9_Witness ==
  /\ lastOp.op = "get_cost"
  /\ lastOp.model = "claude-3.5-sonnet"
  /\ lastOp.input_tokens > 0
  /\ lastOp.output_tokens > 0
  /\ lastOp.returned =
       get_cost("claude-3-5-sonnet-20241022", lastOp.input_tokens, lastOp.output_tokens)
  /\ lastOp.returned[1] = lastOp.input_tokens * 3000
  /\ lastOp.returned[2] = lastOp.output_tokens * 15000

\* C10: the event's user_id is the user_id argument whenever one is given,
\* the empty string included, else the tracker's default_user_id, else None;
\* the same for feature and default_feature.
C10_ExplicitAttributionWins ==
  (lastOp.op = "track" /\ lastOp.returned # None)
    => /\ lastOp.returned[1].user_id =
            (IF lastOp.args.user_id # None THEN lastOp.args.user_id
             ELSE lastOp.tracker.default_user_id)
       /\ lastOp.returned[1].feature =
            (IF lastOp.args.feature # None THEN lastOp.args.feature
             ELSE lastOp.tracker.default_feature)

\* C11: a track() call on a tracker with a client issues exactly one POST, for
\* the event it created, before it returns; a track() call on a tracker
\* without a client issues none.  No other operation issues a POST, so no
\* event is ever sent a second time, whatever the outcome of its POST.
C11_OneSendPerTrack ==
  /\ [][lastOp'.op = "track"
          => /\ lastOp'.id = nextId'
             /\ nextId' = nextId + 1
             /\ posts' = IF lastOp'.tracker.client # None
                         THEN Append(posts, [id      |-> lastOp'.id,
                                             outcome |-> lastOp'.outcome[1]])
                         ELSE posts]_vars
  /\ [][lastOp'.op # "track" => posts' = posts]_vars
  /\ [](\A i, j \in 1..Len(posts) : posts[i].id = posts[j].id => i = j)
  /\ [](\A i \in 1..Len(posts) : posts[i].id \in 1..nextId)

\* the POST of event 1 failed; the next track(), on a tracker without a
\* client, sent nothing and event 1 was not sent again
C11_Witness ==
  /\ lastOp.op = "track"
  /\ lastOp.id = 2
  /\ ~lastOp.sent
  /\ Len(posts) = 1
  /\ posts[1].id = 1
  /\ posts[1].outcome = "connect_error"

\* C12: the POSTs are issued in the order of the track() calls that created
\* their events: each track() that sends appends its POST after all earlier
\* ones, so event ids, which count the track() calls, increase along the log,
\* also after a POST that failed.
C12_SendsInCallOrder ==
  /\ [](\A i, j \in 1..Len(posts) : i < j => posts[i].id < posts[j].id)
  /\ [][(lastOp'.op = "track" /\ lastOp'.sent)
          => /\ Len(posts') = Len(posts) + 1
             /\ SubSeq(posts', 1, Len(posts)) = posts
             /\ posts'[Len(posts')].id = lastOp'.id
             /\ \A i \in 1..Len(posts) : posts[i].id < lastOp'.id]_vars

C12_Witness ==
  /\ Len(posts) = 2
  /\ posts[1].id = 1
  /\ posts[1].outcome = "timeout"
  /\ posts[2].id = 2
  /\ posts[2].outcome = "2xx"

\* C13: a CostTracker constructed with a non-empty API key has its client as
\* soon as the constructor returns; construction, instrument and uninstrument
\* issue no POST, and the log of POSTs changes only in a step in which
\* track() is called, so it is empty until the first track() call.
C13_NoRequestOutsideTrack ==
  /\ []((lastOp.op = "construct" /\ Truthy(lastOp.tracker.api_key))
          => lastOp.tracker.client =
               Some(APIClient(lastOp.tracker.api_key[1], BaseUrl)))
  /\ [][lastOp'.op \in {"construct", "instrument", "uninstrument"}
          => posts' = posts]_vars
  /\ [][posts' # posts
          => /\ lastOp'.op \in {"call", "decorated"}
             /\ lastOp'.track # None
             /\ nextId' = nextId + 1]_vars
  /\ [](nextId = 0 => posts = <<>>)

\* a tracker with a client constructed after an install and an uninstall:
\* still no POST
C13_Witness ==
  /\ lastOp.op = "construct"
  /\ lastOp.tracker.client # None
  /\ made >= 1
  /\ \A p \in Providers : original_create[p] = None /\ tracker[p] = None
  /\ nextId = 0
  /\ posts = <<>>

\* the entry the resolution order picks: the exact key of the name after the
\* alias step, else the first key in declaration order in a prefix relation
\* with it, else none
FirstCandidate(model) ==
  IF Candidates(model) = {} THEN {}
  ELSE {CHOOSE n \in Candidates(model) : \A m \in Candidates(model) : n <= m}

\* C14: get_cost prices a name by the entry the resolution order picks, and
\* returns zeros when it picks none; "gpt-4o-mini" is priced by its own entry
\* and not by "gpt-4o", which is declared before it and is a prefix of it.
C14_ResolutionOrder ==
  /\ lastOp.op = "get_cost"
       => /\ FirstCandidate(lastOp.model) = {}
               => lastOp.returned = <<0, 0, 0>>
          /\ \A n \in FirstCandidate(lastOp.model) :
               lastOp.returned =
                 <<lastOp.input_tokens * PRICING[n].input_price,
                   lastOp.output_tokens * PRICING[n].output_price,
                   lastOp.input_tokens * PRICING[n].input_price
                     + lastOp.output_tokens * PRICING[n].output_price>>
  /\ (lastOp.op = "get_cost" /\ lastOp.model = "gpt-4o-mini")
       => /\ lastOp.returned[1] = lastOp.input_tokens * 150
          /\ lastOp.returned[2] = lastOp.output_tokens * 600

\* "gpt-4o-mini-2024-07-18" is no key: the first key in a prefix relation with
\* it is "gpt-4o" (2.50 / 10.00), declared before "gpt-4o-mini"
C14_Witness ==
  /\ lastOp.op = "get_cost"
  /\ lastOp.model = "gpt-4o-mini-2024-07-18"
  /\ lastOp.input_tokens > 0
  /\ lastOp.output_tokens > 0
  /\ lastOp.returned[1] = lastOp.input_tokens * 2500
  /\ lastOp.returned[2] = lastOp.output_tokens * 10000

\* C15: a host call through an installed wrapper whose result has usage data
\* calls track() once, with the result's model and token counts and a
\* measured duration; a call whose result has no usage data does not call
\* track() and raises nothing.
C15_TrackOncePerUsage ==
  (lastOp.op = "call" /\ lastOp.wrapped /\ lastOp.result.exc = None)
    => IF lastOp.result.usage # None
       THEN /\ lastOp.track # None
            /\ lastOp.track[1].event.model = lastOp.result.model
            /\ lastOp.track[1].event.input_tokens = lastOp.result.usage[1].input
            /\ lastOp.track[1].event.output_tokens = lastOp.result.usage[1].output
            /\ lastOp.track[1].event.duration_ms # None
       ELSE /\ lastOp.track = None
            /\ lastOp.raised = None

\* C18: when the SDK's create raises under an installed wrapper, or the
\* decorated function raises under track_usage, the host gets that exception,
\* the callee ran once, track() was not called, no event was created, no POST
\* was issued, and the slot and both globals are as they were.
C18_ExceptionPropagates ==
  /\ []((/\ lastOp.op \in {"call", "decorated"}
         /\ lastOp.op = "call" => lastOp.wrapped
         /\ lastOp.result.exc # None)
          => /\ lastOp.raised = lastOp.result.exc
             /\ lastOp.returned = None
             /\ lastOp.orig_calls = 1
             /\ lastOp.track = None)
  /\ [][(/\ lastOp'.op \in {"call", "decorated"}
         /\ lastOp'.op = "call" => lastOp'.wrapped
         /\ lastOp'.result.exc # None)
          => /\ nextId' = nextId
             /\ posts' = posts
             /\ slot' = slot
             /\ original_create' = original_create
             /\ tracker' = tracker]_vars

\* the decorated function raises while a wrapper is installed
C18_Witness ==
  /\ lastOp.op = "decorated"
  /\ lastOp.raised = Some("APIError")
  /\ lastOp.track = None
  /\ \E p \in Providers : IsWrapper(slot[p])
  /\ nextId = 1

\* C16: once the captured original of a provider is itself a tracked_create,
\* a host call through the slot never reaches the SDK's create (the wrapper
\* calls the global, which is a wrapper, which calls the global again), and
\* the restore step of uninstrument writes a wrapper, not the SDK's create,
\* into the slot.
C16_DoubleWrapLosesOriginal ==
  /\ []((lastOp.op = "call" /\ lastOp.wrapped /\ IsWrapper(lastOp.captured))
          => /\ lastOp.orig_calls = 0
             /\ lastOp.returned = None
             /\ lastOp.raised = Some("RecursionError"))
  /\ [][\A th \in Threads :
          (/\ inflight[th].pc = "uninstrument_restore"
           /\ inflight'[th].pc = "uninstrument_clear_original"
           /\ IsWrapper(original_create[inflight[th].provider]))
            => /\ IsWrapper(slot'[inflight[th].provider])
               /\ slot'[inflight[th].provider] #
                    Some(Original(inflight[th].provider))]_vars

\* two instruments interleaved between check and swap, then an uninstrument
\* run to its end: the globals are None, no thread is in a call, and the slot
\* holds the first thread's tracked_create
C16_Witness ==
  /\ lastOp.op = "uninstrument"
  /\ lastOp.restored # None
  /\ IsWrapper(lastOp.restored[1])
  /\ slot[lastOp.provider] = lastOp.restored[1]
  /\ original_create[lastOp.provider] = None
  /\ tracker[lastOp.provider] = None
  /\ \A th \in Threads : inflight[th] = Idle

\* C17: a host call whose result has usage data, made through a tracked_create
\* that the host obtained, or entered, while the provider was instrumented,
\* reaches the SDK's create once and returns its result, whatever an
\* uninstrument on another thread does in the meantime (the captured original
\* being no wrapper: the install race of C16 is not what fails here).
C17_CallSurvivesUninstall ==
  (/\ lastOp.op = "call"
   /\ lastOp.wrapped
   /\ lastOp.installed_at_ref \/ lastOp.installed_at_entry
   /\ ~IsWrapper(lastOp.captured)
   /\ lastOp.result.exc = None
   /\ lastOp.result.usage # None)
    => /\ lastOp.orig_calls = 1
       /\ lastOp.returned = Some(lastOp.result)
       /\ lastOp.raised = None

====
